---- MODULE Spec2Model ----
\* Notes frontend: authentication gating (edge middleware, server-side auth
\* helper, page guards), the email+OTP sign-in / sign-up forms, the API
\* service wrapper around axios, and the dashboard's notes handlers.
EXTENDS Integers, Sequences, FiniteSets, Bags, TLC

\* ------------------------------------------------------------------ bounds
MaxMounts == 2      \* client component instances mounted in one run
MaxInflight == 2    \* requests awaiting a response at the same time
MaxNoteId == 3      \* note ids the backend hands out: 1..MaxNoteId
MaxRedirects == 3   \* redirects the browser follows before giving up
MaxTimers == 1      \* pending setTimeout callbacks

\* ------------------------------------------------------- values and inputs
\* A string whose characters matter is a sequence of characters.  An optional
\* value (null / undefined / absent) is <<>>, a present value v is <<v>>.
None == <<>>
Some(v) == <<v>>

BearerPrefix == <<"B", "e", "a", "r", "e", "r", " ">>
Tokens == {<<"a">>}
\* values the backend can put in the Authorization response header
AuthHeaders ==
    {None, Some(BearerPrefix), Some(<<"B", "a", "s", "i", "c", " ", "a">>)}
    \cup {Some(BearerPrefix \o t) : t \in Tokens}

NoteIds == 1..MaxNoteId
Titles == {<<>>, <<" ">>, <<"t">>}
Contents == {<<>>, <<"c">>}

NoError == "null"
BackendMsg == "backend message"

Paths == {"/", "/signin", "/signup", "/dashboard"}

\* What the backend answers to GET /auth/profile: whether any response came
\* back, its status, whether its body parses as JSON, whether data.user is set.
ProfileResponses ==
    {[reached |-> TRUE, status |-> 200, json |-> TRUE, user |-> TRUE],
     [reached |-> TRUE, status |-> 200, json |-> TRUE, user |-> FALSE],
     [reached |-> TRUE, status |-> 200, json |-> FALSE, user |-> FALSE],
     [reached |-> TRUE, status |-> 401, json |-> TRUE, user |-> FALSE],
     [reached |-> TRUE, status |-> 500, json |-> TRUE, user |-> FALSE],
     [reached |-> FALSE, status |-> 0, json |-> FALSE, user |-> FALSE]}

ResponseOk(p) == p.status >= 200 /\ p.status <= 299

\* --------------------------------------------------- server-side auth check
\* getServerAuth without its early return on a missing authToken cookie
GetServerAuthAnyCookie(cookie, p) ==
    IF ~p.reached THEN [user |-> FALSE, isAuthenticated |-> FALSE]
    ELSE IF ~ResponseOk(p) THEN [user |-> FALSE, isAuthenticated |-> FALSE]
    ELSE IF ~p.json THEN [user |-> FALSE, isAuthenticated |-> FALSE]
    ELSE [user |-> p.user, isAuthenticated |-> TRUE]

GetServerAuth(cookie, p) ==
    IF ~cookie THEN [user |-> FALSE, isAuthenticated |-> FALSE]
    ELSE IF ~p.reached THEN [user |-> FALSE, isAuthenticated |-> FALSE]
    ELSE IF ~ResponseOk(p) THEN [user |-> FALSE, isAuthenticated |-> FALSE]
    ELSE IF ~p.json THEN [user |-> FALSE, isAuthenticated |-> FALSE]
    ELSE [user |-> p.user, isAuthenticated |-> TRUE]

\* requireAuth: the path redirected to, or None when the user is returned
RequireAuth(cookie, p) ==
    LET a == GetServerAuth(cookie, p)
    IN  IF ~a.isAuthenticated \/ ~a.user THEN Some("/signin") ELSE None

\* redirectIfAuthenticated testing user instead of isAuthenticated
RedirectIfUser(cookie, p) ==
    IF GetServerAuth(cookie, p).user THEN Some("/dashboard") ELSE None

\* redirectIfAuthenticated: the path redirected to, or None
RedirectIfAuthenticated(cookie, p) ==
    IF GetServerAuth(cookie, p).isAuthenticated THEN Some("/dashboard") ELSE None

\* ------------------------------------------------------------ middlewares
\* checkAuthentication: the cookie check is commented out, the profile call
\* decides alone; response.json() runs before the status is looked at.
CheckAuthentication(cookie, p) ==
    IF ~p.reached THEN FALSE
    ELSE IF ~p.json THEN FALSE
    ELSE IF p.status = 401 THEN FALSE
    ELSE ResponseOk(p) /\ p.status = 200

\* pathname.startsWith(route): no path of Paths extends one of the routes
\* listed in the middleware, so the prefix test is equality here.
StartsWith(path, route) == path = route

\* the middleware with the catch-all matcher: redirect target or None (next)
FullMiddleware(path, cookie, p) ==
    LET isProtectedRoute == \E r \in {"/dashboard"} : StartsWith(path, r)
        isAuthRoute == \E r \in {"/signin", "/signup"} : StartsWith(path, r)
        isAuthenticated == CheckAuthentication(cookie, p)
    IN  IF isProtectedRoute /\ ~isAuthenticated THEN Some("/signin")
        ELSE IF isAuthRoute /\ isAuthenticated THEN Some("/dashboard")
        ELSE IF path = "/"
             THEN (IF isAuthenticated THEN Some("/dashboard") ELSE Some("/signin"))
             ELSE None

\* the middleware matched on "/" only: redirect target or None (next)
RootMiddleware(path) ==
    IF path = "/" THEN Some("/signin") ELSE None

Builds == {"root", "full"}

Middleware(b, path, cookie, p) ==
    IF b = "full" THEN FullMiddleware(path, cookie, p) ELSE RootMiddleware(path)

\* ------------------------------------------------------------- API service
\* What axios does with one request: a 2xx response ("ok"), an error response
\* ("http", which axios throws as an AxiosError carrying the response) or no
\* response at all ("network", an AxiosError without response).
Outcome(kind, status, message, success, data, header) ==
    [kind |-> kind, status |-> status, message |-> message,
     success |-> success, data |-> data, header |-> header]

NoOutcome == Outcome("none", 0, None, FALSE, None, None)

ErrorOutcomes ==
    {Outcome("http", st, m, FALSE, None, None) :
        st \in {401, 500}, m \in {None, Some(BackendMsg)}}
    \cup {Outcome("network", 0, None, FALSE, None, None)}

OkOutcomes(datas, headers) ==
    {Outcome("ok", 200, None, s, d, h) :
        s \in BOOLEAN, d \in datas \cup {None}, h \in headers}

\* An error value: whether isAxiosError(error) holds, error.response (None, or
\* the status and the body's message) and error.message.  Every method of
\* ApiService throws new Error(message): no AxiosError, no response.
PlainError(message) ==
    [isAxiosError |-> FALSE, response |-> None, message |-> message]

NoThrown == [isAxiosError |-> FALSE, response |-> None, message |-> ""]

\* error.response?.data?.message || fallback
MessageOr(o, fallback) ==
    IF o.kind = "http" /\ o.message # None THEN o.message[1] ELSE fallback

HandleResponse(o) == [success |-> o.success, data |-> o.data]

NoBody == [success |-> FALSE, data |-> None]

\* result of one ApiService call: the body returned or the error thrown, the
\* authToken item of localStorage afterwards, and window.location.href if set
Returned(o, storage) ==
    [threw |-> FALSE, error |-> NoThrown, body |-> HandleResponse(o),
     storage |-> storage, href |-> None]

Thrown(message, storage, href) ==
    [threw |-> TRUE, error |-> PlainError(message), body |-> NoBody,
     storage |-> storage, href |-> href]

\* request interceptor: the Authorization header put on a request
RequestInterceptor(storage) ==
    IF storage # None /\ storage[1] # <<>>
    THEN Some(BearerPrefix \o storage[1]) ELSE None

ApiSignup(o, storage) ==
    IF o.kind = "ok" THEN Returned(o, storage)
    ELSE Thrown(MessageOr(o, "Signup failed"), storage, None)

HeaderStartsWithBearer(h) ==
    /\ Len(h) >= Len(BearerPrefix)
    /\ SubSeq(h, 1, Len(BearerPrefix)) = BearerPrefix

\* verifyOTP storing the header as it came, prefix included
ApiVerifyOTPKeepingPrefix(o, storage) ==
    IF o.kind = "ok"
    THEN LET authHeader == o.header
             stored == IF authHeader # None /\ authHeader[1] # <<>>
                          /\ HeaderStartsWithBearer(authHeader[1])
                       THEN Some(authHeader[1])
                       ELSE storage
         IN  Returned(o, stored)
    ELSE Thrown(MessageOr(o, "OTP verification failed"), storage, None)

\* verifyOTP: authHeader.substring(7) goes to localStorage when the header
\* starts with "Bearer "
ApiVerifyOTP(o, storage) ==
    IF o.kind = "ok"
    THEN LET authHeader == o.header
             stored == IF authHeader # None /\ authHeader[1] # <<>>
                          /\ HeaderStartsWithBearer(authHeader[1])
                       THEN Some(SubSeq(authHeader[1], 8, Len(authHeader[1])))
                       ELSE storage
         IN  Returned(o, stored)
    ELSE Thrown(MessageOr(o, "OTP verification failed"), storage, None)

ApiLogin(o, storage) ==
    IF o.kind = "ok" THEN Returned(o, storage)
    ELSE Thrown(MessageOr(o, "Login failed"), storage, None)

\* getNotes treating a 401 like any other failure
ApiGetNotesKeepingToken(o, storage) ==
    IF o.kind = "ok" THEN Returned(o, storage)
    ELSE Thrown(MessageOr(o, "Get notes failed"), storage, None)

\* getNotes: on a 401 the catch block removes authToken and sets
\* window.location.href before it throws
ApiGetNotes(o, storage) ==
    IF o.kind = "ok" THEN Returned(o, storage)
    ELSE IF o.kind = "http" /\ o.status = 401
         THEN Thrown(MessageOr(o, "Get notes failed"), None, Some("/signin"))
         ELSE Thrown(MessageOr(o, "Get notes failed"), storage, None)

ApiCreateNote(o, storage) ==
    IF o.kind = "ok" THEN Returned(o, storage)
    ELSE Thrown(MessageOr(o, "Create note failed"), storage, None)

ApiDeleteNote(o, storage) ==
    IF o.kind = "ok" THEN Returned(o, storage)
    ELSE Thrown(MessageOr(o, "Delete note failed"), storage, None)

\* removeItem sits after the awaited post, inside the try block
ApiLogout(o, storage) ==
    IF o.kind = "ok" THEN Returned(o, None)
    ELSE Thrown(MessageOr(o, "Logout failed"), storage, None)

\* error.response?.data.message || fallback, in a component's catch block
CaughtMessageOr(e, fallback) ==
    IF e.response # None /\ e.response[1].message # None
    THEN e.response[1].message[1] ELSE fallback

\* ------------------------------------------------- sign-in / sign-up forms
InitialForm == [isLoading |-> FALSE, error |-> NoError, otpSent |-> FALSE]

\* onSubmit up to its await: the form afterwards and the request sent
SignInSubmit(f) ==
    [form |-> [f EXCEPT !.isLoading = TRUE, !.error = NoError],
     op |-> IF ~f.otpSent THEN "login" ELSE "verifyOTP"]

SignUpSubmit(f) ==
    [form |-> [f EXCEPT !.isLoading = TRUE, !.error = NoError],
     op |-> IF ~f.otpSent THEN "signup" ELSE "verifyOTP"]

\* onSubmit of the sign-in form setting otpSent without testing
\* response.success
SignInSettleIgnoringSuccess(f, op, res) ==
    LET afterTry ==
            IF ~res.threw
            THEN IF op = "login"
                 THEN [f EXCEPT !.otpSent = TRUE, !.error = NoError]
                 ELSE f
            ELSE IF res.error.isAxiosError
                 THEN [f EXCEPT !.error = CaughtMessageOr(res.error,
                                   "Authentication failed. Please try again.")]
                 ELSE f
    IN  [form |-> [afterTry EXCEPT !.isLoading = FALSE],
         timer |-> ~res.threw /\ op = "verifyOTP" /\ res.body.success]

\* onSubmit after its await: op is the branch the submit took, res the result
\* of the ApiService call; gives the form afterwards and whether the
\* setTimeout(router.push("/dashboard"), 100) was armed
SignInSettle(f, op, res) ==
    LET afterTry ==
            IF ~res.threw
            THEN IF op = "login" /\ res.body.success
                 THEN [f EXCEPT !.otpSent = TRUE, !.error = NoError]
                 ELSE f
            ELSE IF res.error.isAxiosError
                 THEN [f EXCEPT !.error = CaughtMessageOr(res.error,
                                   "Authentication failed. Please try again.")]
                 ELSE f
    IN  [form |-> [afterTry EXCEPT !.isLoading = FALSE],
         timer |-> ~res.threw /\ op = "verifyOTP" /\ res.body.success]

\* onSubmit of the sign-up form arming the redirect without testing
\* response.success
SignUpSettleAlwaysRedirects(f, op, res) ==
    LET afterTry ==
            IF ~res.threw
            THEN IF op = "signup" /\ res.body.success
                 THEN [f EXCEPT !.otpSent = TRUE, !.error = NoError]
                 ELSE f
            ELSE IF res.error.isAxiosError
                 THEN [f EXCEPT !.error = CaughtMessageOr(res.error,
                                   "Authentication failed. Please try again.")]
                 ELSE f
    IN  [form |-> [afterTry EXCEPT !.isLoading = FALSE],
         timer |-> ~res.threw /\ op = "verifyOTP"]

SignUpSettle(f, op, res) ==
    LET afterTry ==
            IF ~res.threw
            THEN IF op = "signup" /\ res.body.success
                 THEN [f EXCEPT !.otpSent = TRUE, !.error = NoError]
                 ELSE f
            ELSE IF res.error.isAxiosError
                 THEN [f EXCEPT !.error = CaughtMessageOr(res.error,
                                   "Authentication failed. Please try again.")]
                 ELSE f
    IN  [form |-> [afterTry EXCEPT !.isLoading = FALSE],
         timer |-> ~res.threw /\ op = "verifyOTP" /\ res.body.success]

\* ---------------------------------------------------------------- dashboard
InitialDashboard ==
    [notes |-> <<>>, isDialogOpen |-> FALSE, newNoteTitle |-> <<>>,
     newNoteContent |-> <<>>, isLoading |-> TRUE, isCreating |-> FALSE,
     error |-> NoError]

RECURSIVE Trim(_)
Trim(s) ==
    IF s = <<>> THEN s
    ELSE IF Head(s) = " " THEN Trim(Tail(s))
    ELSE IF s[Len(s)] = " " THEN Trim(SubSeq(s, 1, Len(s) - 1))
    ELSE s

RECURSIVE FilterReversing(_, _)
\* a filter that hands the kept notes back in reverse order
FilterReversing(notes, id) ==
    IF notes = <<>> THEN <<>>
    ELSE IF Head(notes) = id THEN FilterReversing(Tail(notes), id)
    ELSE FilterReversing(Tail(notes), id) \o <<Head(notes)>>

RECURSIVE Filter(_, _)
\* prevNotes.filter((note) => note.id !== id)
Filter(notes, id) ==
    IF notes = <<>> THEN <<>>
    ELSE IF Head(notes) = id THEN Filter(Tail(notes), id)
    ELSE <<Head(notes)>> \o Filter(Tail(notes), id)

\* the catch block shared in shape by the three notes handlers: router.push
\* on 401 and return, else setError; only for AxiosErrors
CatchNotes(d, e, fallback) ==
    IF e.isAxiosError
    THEN IF e.response # None /\ e.response[1].status = 401
         THEN [dash |-> d, push |-> Some("/signin")]
         ELSE [dash |-> [d EXCEPT !.error = CaughtMessageOr(e, fallback)],
               push |-> None]
    ELSE [dash |-> d, push |-> None]

FetchNotesSettle(d, res) ==
    LET r == IF ~res.threw
             THEN [dash |-> IF res.body.success /\ res.body.data # None
                            THEN [d EXCEPT !.notes = res.body.data[1]]
                            ELSE d,
                   push |-> None]
             ELSE CatchNotes(d, res.error, "Failed to load notes")
    IN  [dash |-> [r.dash EXCEPT !.isLoading = FALSE], push |-> r.push]

\* the guard of handleCreateNote without trim()
CreateNoteSendsUntrimmed(d) == d.newNoteTitle # <<>>

\* handleCreateNote up to its await: whether a request is sent
CreateNoteSends(d) == Trim(d.newNoteTitle) # <<>>

\* handleCreateNote putting the new note after the listed ones
HandleCreateNoteSettleAppending(d, res) ==
    LET r == IF ~res.threw
             THEN [dash |-> IF res.body.success /\ res.body.data # None
                            THEN [d EXCEPT !.notes = @ \o <<res.body.data[1]>>,
                                           !.newNoteTitle = <<>>,
                                           !.newNoteContent = <<>>,
                                           !.isDialogOpen = FALSE]
                            ELSE d,
                   push |-> None]
             ELSE CatchNotes(d, res.error, "Failed to create note")
    IN  [dash |-> [r.dash EXCEPT !.isCreating = FALSE], push |-> r.push]

\* handleCreateNote with setNotes([note, ...notes]) closed over the notes of
\* the first render instead of the functional update
HandleCreateNoteSettleStaleClosure(d, res) ==
    LET r == IF ~res.threw
             THEN [dash |-> IF res.body.success /\ res.body.data # None
                            THEN [d EXCEPT !.notes = <<res.body.data[1]>>
                                                       \o InitialDashboard.notes,
                                           !.newNoteTitle = <<>>,
                                           !.newNoteContent = <<>>,
                                           !.isDialogOpen = FALSE]
                            ELSE d,
                   push |-> None]
             ELSE CatchNotes(d, res.error, "Failed to create note")
    IN  [dash |-> [r.dash EXCEPT !.isCreating = FALSE], push |-> r.push]

\* handleCreateNote after its await: setNotes with the functional update
\* [note, ...prevNotes], the inputs cleared, the dialog closed
HandleCreateNoteSettle(d, res) ==
    LET r == IF ~res.threw
             THEN [dash |-> IF res.body.success /\ res.body.data # None
                            THEN [d EXCEPT !.notes = <<res.body.data[1]>> \o @,
                                           !.newNoteTitle = <<>>,
                                           !.newNoteContent = <<>>,
                                           !.isDialogOpen = FALSE]
                            ELSE d,
                   push |-> None]
             ELSE CatchNotes(d, res.error, "Failed to create note")
    IN  [dash |-> [r.dash EXCEPT !.isCreating = FALSE], push |-> r.push]

\* handleDeleteNote taking the note out whether or not the request failed
HandleDeleteNoteSettleOptimistic(d, id, res) ==
    IF ~res.threw
    THEN [dash |-> [d EXCEPT !.notes = Filter(@, id)], push |-> None]
    ELSE LET c == CatchNotes(d, res.error, "Failed to delete note")
         IN  [dash |-> [c.dash EXCEPT !.notes = Filter(@, id)], push |-> c.push]

\* handleDeleteNote after its await: setNotes with the functional update
\* prevNotes.filter(...)
HandleDeleteNoteSettle(d, id, res) ==
    IF ~res.threw
    THEN [dash |-> [d EXCEPT !.notes = Filter(@, id)], push |-> None]
    ELSE CatchNotes(d, res.error, "Failed to delete note")

\* handleLogout pushes /signin whether logout resolved or threw
HandleLogoutSettle(res) == Some("/signin")

\* -------------------------------------------------------------------- state
VARIABLES
    build,         \* which middleware file the build picks up: "root" or "full"
    localStorage,  \* the authToken item: None or Some(token)
    location,      \* the path of the page the browser shows
    nav,           \* the navigation in progress and where it stands
    mounted,       \* the client component on screen
    inst,          \* number of component instances mounted so far
    form,          \* state of the mounted sign-in / sign-up form
    dash,          \* state of the mounted DashboardClient
    inflight,      \* bag of requests sent by ApiService and not yet answered
    timers,        \* pending setTimeout callbacks per form component
    event          \* the request answered by the last step and its outcome

vars == <<build, localStorage, location, nav, mounted, inst, form, dash, inflight,
          timers, event>>

Forms == {"SignInClient", "SignUpClient"}

NoProfile == [reached |-> FALSE, status |-> 0, json |-> FALSE, user |-> FALSE]

\* a navigation: stage "idle" (shown), "pending" (asked for, request not yet
\* sent), "middleware", "page" (the page's server component runs) or
\* "aborted" (too many redirects); origin is the path first asked for, hard
\* tells a document load from a router.push
Navigation(stage, path, origin, hops, hard, cookie, profile) ==
    [stage |-> stage, path |-> path, origin |-> origin, hops |-> hops,
     hard |-> hard, cookie |-> cookie, profile |-> profile]

Push(path, hard) == Navigation("pending", path, path, 0, hard, FALSE, NoProfile)

\* a request in flight: the ApiService method, the component whose handler
\* awaits it, whether that component instance has been unmounted since, the
\* note id (deleteNote) and the Authorization header the interceptor set
Request(op, from, arg) ==
    [op |-> op, from |-> from, stale |-> FALSE, arg |-> arg,
     auth |-> RequestInterceptor(localStorage)]

NoRequest == [op |-> "none", from |-> "none", stale |-> FALSE, arg |-> 0, auth |-> None]

\* the requests in flight once the mounted instance is unmounted
Unmounted(bag) ==
    LET rs == BagToSet(bag)
        olds == {[r EXCEPT !.stale = TRUE] : r \in rs}
        count(o) == LET ms == {r \in rs : [r EXCEPT !.stale = TRUE] = o}
                        live == [o EXCEPT !.stale = FALSE]
                    IN  (IF o \in ms THEN bag[o] ELSE 0)
                        + (IF live \in ms THEN bag[live] ELSE 0)
    IN  [o \in olds |-> count(o)]

\* the response handled by the last step, if it handled one
Event(type, req, outcome) == [type |-> type, req |-> req, outcome |-> outcome]
NoEvent == Event("none", NoRequest, NoOutcome)

Send(r) == inflight (+) SetToBag({r})
Answered(r) == inflight (-) SetToBag({r})
Pending == BagToSet(inflight)
Live(r) == ~r.stale

NoTimers == [c \in Forms |-> 0]
TimerCount == timers["SignInClient"] + timers["SignUpClient"]
VerifyInflight == BagCardinality([r \in {q \in Pending : q.op = "verifyOTP"} |-> inflight[r]])

\* The server resolves a navigation (middleware, page, redirects) before the
\* event loop of the page on screen handles its next event.
ClientTurn == nav.stage \in {"idle", "aborted"}

Init ==
    /\ build \in Builds
    /\ localStorage \in {None} \cup {Some(t) : t \in Tokens}
    /\ location = "about:blank"
    /\ nav = Navigation("idle", "about:blank", "about:blank", 0, TRUE, FALSE, NoProfile)
    /\ mounted = "none"
    /\ inst = 0
    /\ form = InitialForm
    /\ dash = InitialDashboard
    /\ inflight = EmptyBag
    /\ timers = NoTimers
    /\ event = NoEvent

\* ------------------------------------------------------ navigation actions
\* the user loads a path in the address bar
UserNavigate(p) ==
    /\ ClientTurn
    /\ inst < MaxMounts
    /\ nav' = Push(p, TRUE)
    /\ event' = NoEvent
    /\ UNCHANGED <<build, localStorage, location, mounted, inst, form, dash,
                   inflight, timers>>

\* the browser sends the request of a navigation; the cookie jar and the
\* backend's answer to the profile call stay what they are until it is shown
SendDocumentRequest(cookie, profile) ==
    /\ nav.stage = "pending"
    /\ inst < MaxMounts
    /\ nav' = [nav EXCEPT !.stage = "middleware", !.cookie = cookie,
                          !.profile = profile]
    /\ event' = NoEvent
    /\ UNCHANGED <<build, localStorage, location, mounted, inst, form, dash,
                   inflight, timers>>

\* a redirect response: the browser follows it, up to MaxRedirects times,
\* then shows its error page
Redirect(target) ==
    IF nav.hops < MaxRedirects
    THEN /\ nav' = [nav EXCEPT !.stage = "middleware", !.path = target,
                               !.hops = @ + 1]
         /\ event' = NoEvent
         /\ UNCHANGED <<build, localStorage, location, mounted, inst, form,
                        dash, inflight, timers>>
    ELSE /\ nav' = Navigation("aborted", target, target, 0, TRUE, FALSE, NoProfile)
         /\ event' = NoEvent
         /\ location' = target
         /\ mounted' = "none"
         /\ form' = InitialForm
         /\ dash' = InitialDashboard
         /\ inflight' = EmptyBag
         /\ timers' = NoTimers
         /\ UNCHANGED <<build, localStorage, inst>>

MiddlewareStep ==
    /\ nav.stage = "middleware"
    /\ LET target == Middleware(build, nav.path, nav.cookie, nav.profile)
       IN  IF target # None
           THEN Redirect(target[1])
           ELSE /\ nav' = [nav EXCEPT !.stage = "page"]
                /\ event' = NoEvent
                /\ UNCHANGED <<build, localStorage, location, mounted, inst,
                               form, dash, inflight, timers>>

\* the page's client component is shown.  A router.push to the route already
\* on screen keeps the mounted instance; otherwise a new instance mounts with
\* its initial state, and a document load drops the old page's callbacks.
\* DashboardClient's mount effect calls fetchNotes.
Render(component) ==
    /\ nav' = Navigation("idle", nav.path, nav.path, 0, TRUE, FALSE, NoProfile)
    /\ location' = nav.path
    /\ event' = NoEvent
    /\ IF ~nav.hard /\ mounted = component
       THEN UNCHANGED <<mounted, inst, form, dash, inflight, timers>>
       ELSE /\ mounted' = component
            /\ inst' = inst + 1
            /\ form' = InitialForm
            /\ dash' = InitialDashboard
            /\ timers' = IF nav.hard THEN NoTimers ELSE timers
            /\ LET kept == IF nav.hard THEN EmptyBag ELSE Unmounted(inflight)
                   fetch == Request("getNotes", component, 0)
               IN  inflight' = IF component = "DashboardClient"
                               THEN kept (+) SetToBag({fetch}) ELSE kept
    /\ UNCHANGED <<build, localStorage>>

DashboardPage ==
    /\ nav.stage = "page"
    /\ nav.path = "/dashboard"
    /\ LET target == RequireAuth(nav.cookie, nav.profile)
       IN  IF target # None THEN Redirect(target[1]) ELSE Render("DashboardClient")

SignInPage ==
    /\ nav.stage = "page"
    /\ nav.path = "/signin"
    /\ LET target == RedirectIfAuthenticated(nav.cookie, nav.profile)
       IN  IF target # None THEN Redirect(target[1]) ELSE Render("SignInClient")

SignUpPage ==
    /\ nav.stage = "page"
    /\ nav.path = "/signup"
    /\ LET target == RedirectIfAuthenticated(nav.cookie, nav.profile)
       IN  IF target # None THEN Redirect(target[1]) ELSE Render("SignUpClient")

\* ------------------------------------------------------------ form actions
CanSend == BagCardinality(inflight) < MaxInflight

SignInOnSubmit ==
    /\ ClientTurn
    /\ mounted = "SignInClient"
    /\ ~form.isLoading
    /\ CanSend
    /\ LET s == SignInSubmit(form)
       IN  /\ s.op = "verifyOTP" => TimerCount + VerifyInflight < MaxTimers
           /\ form' = s.form
           /\ inflight' = Send(Request(s.op, "SignInClient", 0))
           /\ event' = NoEvent
    /\ UNCHANGED <<build, localStorage, location, nav, mounted, inst, dash, timers>>

SignUpOnSubmit ==
    /\ ClientTurn
    /\ mounted = "SignUpClient"
    /\ ~form.isLoading
    /\ CanSend
    /\ LET s == SignUpSubmit(form)
       IN  /\ s.op = "verifyOTP" => TimerCount + VerifyInflight < MaxTimers
           /\ form' = s.form
           /\ inflight' = Send(Request(s.op, "SignUpClient", 0))
           /\ event' = NoEvent
    /\ UNCHANGED <<build, localStorage, location, nav, mounted, inst, dash, timers>>

AuthOutcomes(op) ==
    OkOutcomes({}, IF op = "verifyOTP" THEN AuthHeaders ELSE {None}) \cup ErrorOutcomes

\* a response to a request of the sign-in form arrives: the ApiService
\* method finishes, then onSubmit; the state setters of an instance that is
\* no longer mounted do nothing
SignInOnResponse(r, o) ==
    /\ ClientTurn
    /\ r \in Pending
    /\ r.from = "SignInClient"
    /\ o \in AuthOutcomes(r.op)
    /\ LET res == IF r.op = "login" THEN ApiLogin(o, localStorage)
                  ELSE ApiVerifyOTP(o, localStorage)
           s == SignInSettle(IF Live(r) THEN form ELSE InitialForm, r.op, res)
       IN  /\ form' = IF Live(r) THEN s.form ELSE form
           /\ localStorage' = res.storage
           /\ timers' = IF s.timer
                        THEN [timers EXCEPT !["SignInClient"] = @ + 1] ELSE timers
    /\ inflight' = Answered(r)
    /\ event' = Event("response", r, o)
    /\ UNCHANGED <<build, location, nav, mounted, inst, dash>>

SignUpOnResponse(r, o) ==
    /\ ClientTurn
    /\ r \in Pending
    /\ r.from = "SignUpClient"
    /\ o \in AuthOutcomes(r.op)
    /\ LET res == IF r.op = "signup" THEN ApiSignup(o, localStorage)
                  ELSE ApiVerifyOTP(o, localStorage)
           s == SignUpSettle(IF Live(r) THEN form ELSE InitialForm, r.op, res)
       IN  /\ form' = IF Live(r) THEN s.form ELSE form
           /\ localStorage' = res.storage
           /\ timers' = IF s.timer
                        THEN [timers EXCEPT !["SignUpClient"] = @ + 1] ELSE timers
    /\ inflight' = Answered(r)
    /\ event' = Event("response", r, o)
    /\ UNCHANGED <<build, location, nav, mounted, inst, dash>>

\* the setTimeout callback armed by a successful verification
SignInTimer ==
    /\ ClientTurn
    /\ timers["SignInClient"] > 0
    /\ timers' = [timers EXCEPT !["SignInClient"] = @ - 1]
    /\ nav' = Push("/dashboard", FALSE)
    /\ event' = NoEvent
    /\ UNCHANGED <<build, localStorage, location, mounted, inst, form, dash, inflight>>

SignUpTimer ==
    /\ ClientTurn
    /\ timers["SignUpClient"] > 0
    /\ timers' = [timers EXCEPT !["SignUpClient"] = @ - 1]
    /\ nav' = Push("/dashboard", FALSE)
    /\ event' = NoEvent
    /\ UNCHANGED <<build, localStorage, location, mounted, inst, form, dash, inflight>>

\* the "create one" / "sign in" links under the forms
SignInToSignUp ==
    /\ ClientTurn
    /\ mounted = "SignInClient"
    /\ nav' = Push("/signup", FALSE)
    /\ event' = NoEvent
    /\ UNCHANGED <<build, localStorage, location, mounted, inst, form, dash,
                   inflight, timers>>

\* the "Sign in" button sits inside the <form> and has no type, so a click
\* runs its onClick and then submits the form; handleSubmit calls onSubmit
\* when the fields validate, whether or not a submit is already running
SignUpToSignIn(valid) ==
    /\ ClientTurn
    /\ mounted = "SignUpClient"
    /\ nav' = Push("/signin", FALSE)
    /\ IF valid
       THEN LET s == SignUpSubmit(form)
            IN  /\ CanSend
                /\ s.op = "verifyOTP" => TimerCount + VerifyInflight < MaxTimers
                /\ form' = s.form
                /\ inflight' = Send(Request(s.op, "SignUpClient", 0))
                /\ event' = NoEvent
       ELSE /\ event' = NoEvent
            /\ UNCHANGED <<form, inflight>>
    /\ UNCHANGED <<build, localStorage, location, mounted, inst, dash, timers>>

\* ------------------------------------------------------- dashboard actions
\* while isLoading the component renders only the loader
DashboardShown == mounted = "DashboardClient" /\ ~dash.isLoading

Range(seq) == {seq[i] : i \in 1..Len(seq)}

\* the note lists the backend can return: ids without repetition
NoteLists ==
    {l \in UNION {[1..n -> NoteIds] : n \in 0..MaxNoteId} :
        \A i, j \in 1..Len(l) : i # j => l[i] # l[j]}

\* what GET /notes can answer
FetchOutcomes == OkOutcomes({Some(l) : l \in NoteLists}, {None}) \cup ErrorOutcomes

\* on mount: the answer to the getNotes call of fetchNotes arrives
FetchNotesResponse(r, o) ==
    /\ ClientTurn
    /\ r \in Pending
    /\ r.op = "getNotes"
    /\ o \in FetchOutcomes
    /\ LET res == ApiGetNotes(o, localStorage)
           s == FetchNotesSettle(IF Live(r) THEN dash ELSE InitialDashboard, res)
       IN  /\ dash' = IF Live(r) THEN s.dash ELSE dash
           /\ localStorage' = res.storage
           /\ nav' = IF res.href # None THEN Push(res.href[1], TRUE)
                     ELSE IF s.push # None THEN Push(s.push[1], FALSE)
                     ELSE nav
    /\ inflight' = Answered(r)
    /\ event' = Event("response", r, o)
    /\ UNCHANGED <<build, location, mounted, inst, form, timers>>

SetIsDialogOpen(open) ==
    /\ ClientTurn
    /\ DashboardShown
    /\ dash.isDialogOpen # open
    /\ dash' = [dash EXCEPT !.isDialogOpen = open]
    /\ event' = NoEvent
    /\ UNCHANGED <<build, localStorage, location, nav, mounted, inst, form,
                   inflight, timers>>

SetNewNoteTitle(title) ==
    /\ ClientTurn
    /\ DashboardShown
    /\ dash.isDialogOpen
    /\ ~dash.isCreating
    /\ dash.newNoteTitle # title
    /\ dash' = [dash EXCEPT !.newNoteTitle = title]
    /\ event' = NoEvent
    /\ UNCHANGED <<build, localStorage, location, nav, mounted, inst, form,
                   inflight, timers>>

SetNewNoteContent(content) ==
    /\ ClientTurn
    /\ DashboardShown
    /\ dash.isDialogOpen
    /\ ~dash.isCreating
    /\ dash.newNoteContent # content
    /\ dash' = [dash EXCEPT !.newNoteContent = content]
    /\ event' = NoEvent
    /\ UNCHANGED <<build, localStorage, location, nav, mounted, inst, form,
                   inflight, timers>>

\* the create form is submitted: handleCreateNote up to its await
HandleCreateNote ==
    /\ ClientTurn
    /\ DashboardShown
    /\ dash.isDialogOpen
    /\ ~dash.isCreating
    /\ IF CreateNoteSends(dash)
       THEN /\ CanSend
            /\ dash' = [dash EXCEPT !.isCreating = TRUE]
            /\ inflight' = Send(Request("createNote", "DashboardClient", 0))
            /\ event' = NoEvent
       ELSE /\ event' = NoEvent
            /\ UNCHANGED <<dash, inflight>>
    /\ UNCHANGED <<build, localStorage, location, nav, mounted, inst, form, timers>>

\* what POST /notes can answer
CreateOutcomes == OkOutcomes({Some(i) : i \in NoteIds}, {None}) \cup ErrorOutcomes

\* what a call whose response body is not read can answer
PlainOutcomes == OkOutcomes({}, {None}) \cup ErrorOutcomes

\* the backend gives a created note an id no listed note has
HandleCreateNoteResponse(r, o) ==
    /\ ClientTurn
    /\ r \in Pending
    /\ r.op = "createNote"
    /\ o \in OkOutcomes({Some(i) : i \in NoteIds \ Range(dash.notes)}, {None})
             \cup ErrorOutcomes
    /\ LET res == ApiCreateNote(o, localStorage)
           s == HandleCreateNoteSettle(IF Live(r) THEN dash ELSE InitialDashboard,
                                       res)
       IN  /\ dash' = IF Live(r) THEN s.dash ELSE dash
           /\ localStorage' = res.storage
           /\ nav' = IF s.push # None THEN Push(s.push[1], FALSE) ELSE nav
    /\ inflight' = Answered(r)
    /\ event' = Event("response", r, o)
    /\ UNCHANGED <<build, location, mounted, inst, form, timers>>

\* the delete button of a listed note: handleDeleteNote up to its await
HandleDeleteNote(id) ==
    /\ ClientTurn
    /\ DashboardShown
    /\ id \in Range(dash.notes)
    /\ CanSend
    /\ inflight' = Send(Request("deleteNote", "DashboardClient", id))
    /\ event' = NoEvent
    /\ UNCHANGED <<build, localStorage, location, nav, mounted, inst, form, dash,
                   timers>>

HandleDeleteNoteResponse(r, o) ==
    /\ ClientTurn
    /\ r \in Pending
    /\ r.op = "deleteNote"
    /\ o \in PlainOutcomes
    /\ LET res == ApiDeleteNote(o, localStorage)
           s == HandleDeleteNoteSettle(IF Live(r) THEN dash ELSE InitialDashboard,
                                       r.arg, res)
       IN  /\ dash' = IF Live(r) THEN s.dash ELSE dash
           /\ localStorage' = res.storage
           /\ nav' = IF s.push # None THEN Push(s.push[1], FALSE) ELSE nav
    /\ inflight' = Answered(r)
    /\ event' = Event("response", r, o)
    /\ UNCHANGED <<build, location, mounted, inst, form, timers>>

\* the logout button: handleLogout up to its await
HandleLogout ==
    /\ ClientTurn
    /\ DashboardShown
    /\ CanSend
    /\ inflight' = Send(Request("logout", "DashboardClient", 0))
    /\ event' = NoEvent
    /\ UNCHANGED <<build, localStorage, location, nav, mounted, inst, form, dash,
                   timers>>

HandleLogoutResponse(r, o) ==
    /\ ClientTurn
    /\ r \in Pending
    /\ r.op = "logout"
    /\ o \in PlainOutcomes
    /\ LET res == ApiLogout(o, localStorage)
           push == HandleLogoutSettle(res)
       IN  /\ localStorage' = res.storage
           /\ nav' = Push(push[1], FALSE)
    /\ inflight' = Answered(r)
    /\ event' = Event("response", r, o)
    /\ UNCHANGED <<build, location, mounted, inst, form, dash, timers>>

\* -------------------------------------------------------------------- spec
Next ==
    \/ \E p \in Paths : UserNavigate(p)
    \/ \E c \in BOOLEAN, p \in ProfileResponses : SendDocumentRequest(c, p)
    \/ MiddlewareStep
    \/ DashboardPage
    \/ SignInPage
    \/ SignUpPage
    \/ SignInOnSubmit
    \/ SignUpOnSubmit
    \/ \E r \in Pending : \E o \in AuthOutcomes(r.op) : SignInOnResponse(r, o)
    \/ \E r \in Pending : \E o \in AuthOutcomes(r.op) : SignUpOnResponse(r, o)
    \/ SignInTimer
    \/ SignUpTimer
    \/ SignInToSignUp
    \/ \E valid \in BOOLEAN : SignUpToSignIn(valid)
    \/ \E r \in Pending, o \in FetchOutcomes : FetchNotesResponse(r, o)
    \/ \E open \in BOOLEAN : SetIsDialogOpen(open)
    \/ \E t \in Titles : SetNewNoteTitle(t)
    \/ \E c \in Contents : SetNewNoteContent(c)
    \/ HandleCreateNote
    \/ \E r \in Pending, o \in CreateOutcomes : HandleCreateNoteResponse(r, o)
    \/ \E i \in NoteIds : HandleDeleteNote(i)
    \/ \E r \in Pending, o \in PlainOutcomes : HandleDeleteNoteResponse(r, o)
    \/ HandleLogout
    \/ \E r \in Pending, o \in PlainOutcomes : HandleLogoutResponse(r, o)

Spec == Init /\ [][Next]_vars

\* the routing of a navigation alone: middleware, page guards, redirects
GateNext ==
    \/ \E p \in Paths : UserNavigate(p)
    \/ \E c \in BOOLEAN, p \in ProfileResponses : SendDocumentRequest(c, p)
    \/ MiddlewareStep
    \/ DashboardPage
    \/ SignInPage
    \/ SignUpPage

GateSpec == Init /\ [][GateNext]_vars

\* routing and the sign-in / sign-up forms
FormNext ==
    \/ \E p \in Paths : UserNavigate(p)
    \/ \E c \in BOOLEAN, p \in ProfileResponses : SendDocumentRequest(c, p)
    \/ MiddlewareStep
    \/ DashboardPage
    \/ SignInPage
    \/ SignUpPage
    \/ SignInOnSubmit
    \/ SignUpOnSubmit
    \/ \E r \in Pending : \E o \in AuthOutcomes(r.op) : SignInOnResponse(r, o)
    \/ \E r \in Pending : \E o \in AuthOutcomes(r.op) : SignUpOnResponse(r, o)
    \/ SignInTimer
    \/ SignUpTimer
    \/ SignInToSignUp
    \/ \E valid \in BOOLEAN : SignUpToSignIn(valid)

FormSpec == Init /\ [][FormNext]_vars

\* routing and the dashboard
DashNext ==
    \/ \E p \in Paths : UserNavigate(p)
    \/ \E c \in BOOLEAN, p \in ProfileResponses : SendDocumentRequest(c, p)
    \/ MiddlewareStep
    \/ DashboardPage
    \/ SignInPage
    \/ SignUpPage
    \/ \E r \in Pending, o \in FetchOutcomes : FetchNotesResponse(r, o)
    \/ \E open \in BOOLEAN : SetIsDialogOpen(open)
    \/ \E t \in Titles : SetNewNoteTitle(t)
    \/ \E c \in Contents : SetNewNoteContent(c)
    \/ HandleCreateNote
    \/ \E r \in Pending, o \in CreateOutcomes : HandleCreateNoteResponse(r, o)
    \/ \E i \in NoteIds : HandleDeleteNote(i)
    \/ \E r \in Pending, o \in PlainOutcomes : HandleDeleteNoteResponse(r, o)
    \/ HandleLogout
    \/ \E r \in Pending, o \in PlainOutcomes : HandleLogoutResponse(r, o)

DashSpec == Init /\ [][DashNext]_vars

\* the notes handlers of a dashboard the user has loaded
NotesNext ==
    \/ UserNavigate("/dashboard")
    \/ \E c \in BOOLEAN, p \in ProfileResponses : SendDocumentRequest(c, p)
    \/ MiddlewareStep
    \/ DashboardPage
    \/ SignInPage
    \/ \E r \in Pending, o \in FetchOutcomes : FetchNotesResponse(r, o)
    \/ \E open \in BOOLEAN : SetIsDialogOpen(open)
    \/ \E t \in Titles : SetNewNoteTitle(t)
    \/ \E c \in Contents : SetNewNoteContent(c)
    \/ HandleCreateNote
    \/ \E r \in Pending, o \in CreateOutcomes : HandleCreateNoteResponse(r, o)
    \/ \E i \in NoteIds : HandleDeleteNote(i)
    \/ \E r \in Pending, o \in PlainOutcomes : HandleDeleteNoteResponse(r, o)

NotesSpec == Init /\ [][NotesNext]_vars

\* routing, the dashboard's fetch on mount and logout
SessionNext ==
    \/ \E p \in Paths : UserNavigate(p)
    \/ \E c \in BOOLEAN, p \in ProfileResponses : SendDocumentRequest(c, p)
    \/ MiddlewareStep
    \/ DashboardPage
    \/ SignInPage
    \/ SignUpPage
    \/ \E r \in Pending, o \in FetchOutcomes : FetchNotesResponse(r, o)
    \/ HandleLogout
    \/ \E r \in Pending, o \in PlainOutcomes : HandleLogoutResponse(r, o)

SessionSpec == Init /\ [][SessionNext]_vars

\* ------------------------------------------------------------------ claims
IsResponse(e) == e.type = "response" /\ ~e.req.stale

NotesOps == {"getNotes", "createNote", "deleteNote"}

\* C1: whenever a notes operation issued from the dashboard (initial fetch,
\* create note, delete note) fails with HTTP status 401, the client navigates
\* to /signin.
C1_UnauthorizedRedirects ==
    (/\ IsResponse(event)
     /\ event.req.op \in NotesOps
     /\ event.outcome.kind = "http"
     /\ event.outcome.status = 401)
    => (nav.stage = "pending" /\ nav.path = "/signin")

\* C2: whenever a sign-in or sign-up submit (login, signup or verifyOTP call)
\* fails with an HTTP error response, the form's error state holds a non-null
\* message (the backend's message or "Authentication failed. Please try
\* again.") once the submit has completed.
C2_AuthErrorDisplayed ==
    (/\ IsResponse(event)
     /\ event.req.from \in Forms
     /\ event.outcome.kind = "http")
    => (/\ form.error # NoError
        /\ form.error \in {BackendMsg, "Authentication failed. Please try again."})

\* C3: whenever a dashboard notes operation (fetch, create, delete) fails with
\* an HTTP error other than 401, the dashboard's error state holds a non-null
\* message (the backend's message or the "Failed to load/create/delete note"
\* default) once the operation has completed.
C3_NotesErrorDisplayed ==
    (/\ IsResponse(event)
     /\ event.req.op \in NotesOps
     /\ event.outcome.kind = "http"
     /\ event.outcome.status # 401)
    => (/\ dash.error # NoError
        /\ dash.error \in {BackendMsg, "Failed to load notes",
                           "Failed to create note", "Failed to delete note"})

\* the server-side auth check succeeded: an authToken cookie was sent and the
\* profile call came back ok with a user
AuthCheckSucceeded(n) ==
    /\ n.cookie
    /\ n.profile.reached
    /\ n.profile.status = 200
    /\ n.profile.json
    /\ n.profile.user

RedirectedTo(path) ==
    /\ nav'.path = path
    /\ nav'.stage \in {"middleware", "aborted"}
    /\ nav'.stage = "middleware" => mounted' = mounted /\ location' = location
    /\ nav'.stage = "aborted" => mounted' = "none"

\* C4: the dashboard is rendered for a request to /dashboard only if the
\* server-side auth check succeeded (authToken cookie present, profile call ok
\* with a user); in every other case the request is redirected to /signin and
\* DashboardClient is not rendered.
C4_DashboardOnlyWhenAuthenticated ==
    [][/\ (nav.stage = "page" /\ nav.path = "/dashboard" /\ nav' # nav)
            => IF AuthCheckSucceeded(nav)
               THEN /\ nav'.stage = "idle"
                    /\ location' = "/dashboard"
                    /\ mounted' = "DashboardClient"
               ELSE RedirectedTo("/signin")
       /\ (mounted' = "DashboardClient" /\ (mounted # "DashboardClient" \/ inst' # inst))
            => (nav.stage = "page" /\ nav.path = "/dashboard"
                /\ AuthCheckSucceeded(nav))
      ]_vars

C4_Witness ==
    /\ mounted = "DashboardClient"
    /\ location = "/dashboard"
    /\ nav.stage = "idle"

FormOf(path) == IF path = "/signin" THEN "SignInClient" ELSE "SignUpClient"

\* C5: a request to /signin or /signup whose server-side auth check reports
\* authenticated is redirected to /dashboard and the form is not rendered;
\* when the check reports unauthenticated the form is rendered and there is
\* no redirect.
C5_AuthPagesRedirectWhenAuthenticated ==
    [][(nav.stage = "page" /\ nav.path \in {"/signin", "/signup"} /\ nav' # nav)
         => IF GetServerAuth(nav.cookie, nav.profile).isAuthenticated
            THEN RedirectedTo("/dashboard")
            ELSE /\ nav'.stage = "idle"
                 /\ location' = nav.path
                 /\ mounted' = FormOf(nav.path)
      ]_vars

C5_Witness ==
    /\ build = "root"
    /\ nav.origin = "/signup"
    /\ nav.path = "/dashboard"
    /\ nav.stage = "middleware"

\* C6: a navigation to / ends on /dashboard when the user is authenticated and
\* on /signin when the user is not, following the chain of middleware
\* redirect and server-side page guard.
C6_RootEndsByAuthStatus ==
    [][(/\ nav.origin = "/"
        /\ nav.stage \in {"middleware", "page"}
        /\ nav'.stage \in {"idle", "aborted"})
         => (/\ nav'.stage = "idle"
             /\ location' = IF AuthCheckSucceeded(nav) THEN "/dashboard"
                            ELSE "/signin")
      ]_vars

\* the decision of the server-side helper the page of a path uses
PageGuard(path, cookie, p) ==
    IF path = "/dashboard" THEN RequireAuth(cookie, p)
    ELSE RedirectIfAuthenticated(cookie, p)

\* C7: for every path in {/dashboard, /signin, /signup} and every combination
\* of authToken-cookie presence and backend profile response, the edge
\* middleware's decision (redirect to /signin, redirect to /dashboard, pass
\* through) equals the decision of the server-side helper of that page.
C7_MiddlewareAgreesWithHelper ==
    (nav.stage = "middleware" /\ nav.path \in {"/dashboard", "/signin", "/signup"})
    => FullMiddleware(nav.path, nav.cookie, nav.profile)
         = PageGuard(nav.path, nav.cookie, nav.profile)

\* a request of component c for method op is sent in this step
SentBy(c, op) ==
    \E q \in BagToSet(inflight') :
        /\ q.from = c
        /\ q.op = op
        /\ ~q.stale
        /\ CopiesIn(q, inflight') > CopiesIn(q, inflight)

FirstOp(c) == IF c = "SignInClient" THEN "login" ELSE "signup"

SameInstance(c) == mounted = c /\ mounted' = c /\ inst' = inst

\* C8: in the sign-in and in the sign-up form a verifyOTP request is sent only
\* once otpSent is true, otpSent becomes true only in the step that handles a
\* login (resp. signup) response with success of the same form instance (so a
\* failed or unsuccessful one leaves it false), and once otpSent is true it
\* stays true and the form sends no further login / signup request.
C8_TwoStepProtocol ==
    [][\A c \in Forms :
        /\ SentBy(c, "verifyOTP") => (mounted = c /\ form.otpSent)
        /\ (SameInstance(c) /\ ~form.otpSent /\ form'.otpSent)
             => (/\ IsResponse(event')
                 /\ event'.req.from = c
                 /\ event'.req.op = FirstOp(c)
                 /\ event'.outcome.kind = "ok"
                 /\ event'.outcome.success)
        /\ (SameInstance(c) /\ form.otpSent) => form'.otpSent
        /\ (mounted = c /\ form.otpSent) => ~SentBy(c, FirstOp(c))
      ]_vars

C8_Witness ==
    /\ mounted \in Forms
    /\ form.otpSent
    /\ \E r \in Pending : r.op = "verifyOTP" /\ ~r.stale /\ r.from = mounted

\* the bearer token a response carries in its Authorization header, if any
CarriedToken(o) ==
    IF /\ o.header # None
       /\ Len(o.header[1]) >= 7
       /\ SubSeq(o.header[1], 1, 7) = <<"B", "e", "a", "r", "e", "r", " ">>
    THEN Some(SubSeq(o.header[1], 8, Len(o.header[1])))
    ELSE None

\* C9: the forms navigate to /dashboard only through the callback armed by a
\* verifyOTP response with success = true, the bearer token carried by that
\* response is in localStorage when the callback is armed (before the
\* navigation is issued), and a failed or unsuccessful verification neither
\* arms the callback nor navigates.
C9_DashboardAfterVerifiedOTP ==
    [][/\ \A c \in Forms :
            timers'[c] > timers[c]
              => (/\ event'.type = "response"
                  /\ event'.req.from = c
                  /\ event'.req.op = "verifyOTP"
                  /\ event'.outcome.kind = "ok"
                  /\ event'.outcome.success
                  /\ CarriedToken(event'.outcome) # None
                       => localStorage' = CarriedToken(event'.outcome))
       /\ (nav' # nav /\ nav'.stage = "pending" /\ nav'.path = "/dashboard"
           /\ ~nav'.hard)
            => \E c \in Forms : timers'[c] = timers[c] - 1
       /\ (/\ event'.type = "response"
           /\ event'.req.op = "verifyOTP"
           /\ ~(event'.outcome.kind = "ok" /\ event'.outcome.success))
            => (timers' = timers /\ nav' = nav)
      ]_vars

C9_Witness ==
    /\ nav.stage = "pending"
    /\ nav.path = "/dashboard"
    /\ ~nav.hard
    /\ localStorage = Some(<<"a">>)
    /\ mounted \in Forms

\* C10: after apiService.logout() completes, whether the /auth/logout request
\* succeeded or failed, no authToken remains in localStorage.
C10_LogoutClearsToken ==
    (event.type = "response" /\ event.req.op = "logout") => localStorage = None

\* the response e lets its handler reach its setNotes call
Successful(e) ==
    /\ IsResponse(e)
    /\ e.req.op \in NotesOps
    /\ e.outcome.kind = "ok"
    /\ e.req.op \in {"getNotes", "createNote"}
         => (e.outcome.success /\ e.outcome.data # None)

\* C11: no optimistic UI: the notes list of a mounted DashboardClient changes
\* only in the step that handles a successful response (fetch with success
\* and data, create with success and data, delete that resolved); the step
\* that issues a request and the step that handles a failed or unsuccessful
\* response leave the list as it was.
C11_NoOptimisticUpdate ==
    [][SameInstance("DashboardClient")
         => /\ dash'.notes # dash.notes => Successful(event')
            /\ (\E op \in NotesOps : SentBy("DashboardClient", op))
                 => dash'.notes = dash.notes
            /\ (/\ IsResponse(event')
                /\ event'.req.op \in NotesOps
                /\ ~Successful(event'))
                 => dash'.notes = dash.notes
      ]_vars

C11_Witness ==
    /\ mounted = "DashboardClient"
    /\ IsResponse(event)
    /\ event.req.op = "deleteNote"
    /\ event.outcome.kind = "http"
    /\ event.req.arg \in Range(dash.notes)
    /\ \E r \in Pending : Live(r) /\ r.op = "createNote"

\* C12: when the GET /notes request fails with status 401, authToken is
\* removed from localStorage and the browser location is set to /signin (a
\* document load) in the step that throws; for any other failure the token
\* is left untouched and the API layer sets no location.
C12_GetNotesUnauthorized ==
    [][(/\ event'.type = "response"
        /\ event'.req.op = "getNotes"
        /\ event'.outcome.kind # "ok")
         => IF event'.outcome.kind = "http" /\ event'.outcome.status = 401
            THEN /\ localStorage' = None
                 /\ nav'.stage = "pending"
                 /\ nav'.path = "/signin"
                 /\ nav'.hard
            ELSE /\ localStorage' = localStorage
                 /\ nav' # nav => ~nav'.hard
      ]_vars

C12_Witness ==
    /\ event.type = "response"
    /\ event.req.op = "getNotes"
    /\ event.req.auth # None
    /\ event.outcome.kind = "http"
    /\ event.outcome.status = 401
    /\ localStorage = None
    /\ nav.stage = "pending"
    /\ nav.path = "/signin"

\* C13: after a successful create (response has success and data) the
\* returned note is the first element of the notes list, all previously
\* listed notes follow in their previous relative order, the title and
\* content inputs are empty and the dialog is closed.
C13_CreatePrepends ==
    [][(/\ IsResponse(event')
        /\ event'.req.op = "createNote"
        /\ event'.outcome.kind = "ok"
        /\ event'.outcome.success
        /\ event'.outcome.data # None)
         => /\ Len(dash'.notes) = Len(dash.notes) + 1
            /\ dash'.notes[1] = event'.outcome.data[1]
            /\ \A i \in 1..Len(dash.notes) : dash'.notes[i + 1] = dash.notes[i]
            /\ dash'.newNoteTitle = <<>>
            /\ dash'.newNoteContent = <<>>
            /\ ~dash'.isDialogOpen
      ]_vars

C13_Witness ==
    /\ IsResponse(event)
    /\ event.req.op = "createNote"
    /\ event.outcome.kind = "ok"
    /\ event.outcome.success
    /\ event.outcome.data # None
    /\ Len(dash.notes) = 3
    /\ dash.notes[1] = event.outcome.data[1]
    /\ ~dash.isDialogOpen

\* C14: after a delete request for id resolves, the notes list contains no
\* note with that id and contains every other previously listed note in
\* unchanged relative order; deleting an id that is no longer in the list
\* leaves the list unchanged.
C14_DeleteRemovesOnlyThatNote ==
    [][(/\ IsResponse(event')
        /\ event'.req.op = "deleteNote"
        /\ event'.outcome.kind = "ok")
         => LET id == event'.req.arg
            IN  /\ id \notin Range(dash'.notes)
                /\ dash'.notes = SelectSeq(dash.notes, LAMBDA n : n # id)
                /\ id \notin Range(dash.notes) => dash'.notes = dash.notes
      ]_vars

C14_Witness ==
    /\ IsResponse(event)
    /\ event.req.op = "deleteNote"
    /\ event.outcome.kind = "ok"
    /\ event.req.arg \notin Range(dash.notes)
    /\ Len(dash.notes) = 2

\* a title that is empty or whitespace-only
Blank(title) == \A i \in 1..Len(title) : title[i] = " "

\* C15: submitting the create-note form with a title that is empty or
\* whitespace-only sends no request and leaves notes, the dialog's open
\* state, the input fields, isCreating and error all unchanged.
C15_BlankTitleIsNoOp ==
    [][/\ (mounted = "DashboardClient" /\ Blank(dash.newNoteTitle))
            => ~SentBy("DashboardClient", "createNote")
       /\ (Blank(dash.newNoteTitle) /\ HandleCreateNote)
            => /\ inflight' = inflight
               /\ dash'.notes = dash.notes
               /\ dash'.isDialogOpen = dash.isDialogOpen
               /\ dash'.newNoteTitle = dash.newNoteTitle
               /\ dash'.newNoteContent = dash.newNoteContent
               /\ dash'.isCreating = dash.isCreating
               /\ dash'.error = dash.error
      ]_vars

C15_Witness ==
    /\ DashboardShown
    /\ ClientTurn
    /\ dash.isDialogOpen
    /\ ~dash.isCreating
    /\ dash.newNoteTitle = <<" ">>
    /\ dash.newNoteContent # <<>>
    /\ dash.notes # <<>>

\* the live create and delete requests of the dashboard still in flight
LiveUpdates ==
    {r \in Pending : Live(r) /\ r.op \in {"createNote", "deleteNote"}}

\* C16: no lost update: whatever create and delete requests are in flight
\* together and in whatever order their responses arrive, each response
\* acts on the list as it is when it arrives: a successful create adds
\* exactly the created note, a resolved delete removes exactly its id, a
\* failed one changes nothing, no note is listed twice, and the fetch is
\* answered before any create or delete is issued; so the list holds the
\* fetched notes plus every created note minus every deleted id.
C16_NoLostUpdate ==
    [][/\ (IsResponse(event') /\ event'.req.op \in {"createNote", "deleteNote"})
            => LET before == Range(dash.notes)
                   after == Range(dash'.notes)
                   o == event'.outcome
               IN  /\ after =
                        IF event'.req.op = "createNote"
                        THEN IF o.kind = "ok" /\ o.success /\ o.data # None
                             THEN before \cup {o.data[1]}
                             ELSE before
                        ELSE IF o.kind = "ok"
                             THEN before \ {event'.req.arg}
                             ELSE before
                   /\ Cardinality(after) = Len(dash'.notes)
       /\ (IsResponse(event') /\ event'.req.op = "getNotes")
            => (dash.isLoading /\ LiveUpdates = {})
       /\ (mounted = "DashboardClient" /\ dash.isLoading)
            => ~\E op \in {"createNote", "deleteNote"} :
                    SentBy("DashboardClient", op)
      ]_vars

C16_Witness ==
    /\ IsResponse(event)
    /\ event.req.op = "createNote"
    /\ event.outcome.kind = "ok"
    /\ event.outcome.success
    /\ event.outcome.data # None
    /\ event.outcome.data[1] \in Range(dash.notes)
    /\ \E r \in LiveUpdates :
         /\ r.op = "deleteNote"
         /\ r.arg \in Range(dash.notes)
         /\ r.arg # event.outcome.data[1]

\* the requests sent in this step
Sent ==
    {q \in BagToSet(inflight') :
        ~q.stale /\ CopiesIn(q, inflight') > CopiesIn(q, inflight)}

\* C17: verifyOTP stores a token in localStorage only when the response's
\* Authorization header starts with "Bearer ", storing exactly the header
\* value without that prefix (otherwise the stored token is unchanged); and
\* every request carries the header Authorization = "Bearer " + stored token
\* if and only if a non-empty authToken is stored when the request is sent.
C17_TokenRoundTrip ==
    [][/\ (event'.type = "response" /\ event'.req.op = "verifyOTP")
            => localStorage' =
                 IF event'.outcome.kind = "ok"
                    /\ CarriedToken(event'.outcome) # None
                 THEN CarriedToken(event'.outcome)
                 ELSE localStorage
       /\ \A q \in Sent :
            IF localStorage # None /\ Len(localStorage[1]) > 0
            THEN q.auth = Some(<<"B", "e", "a", "r", "e", "r", " ">>
                               \o localStorage[1])
            ELSE q.auth = None
      ]_vars

C17_Witness ==
    /\ event.type = "response"
    /\ event.req.op = "verifyOTP"
    /\ event.req.auth = None
    /\ event.outcome.kind = "ok"
    /\ event.outcome.header = Some(<<"B", "e", "a", "r", "e", "r", " ", "a">>)
    /\ localStorage = Some(<<"a">>)

====
